---------------------------- MODULE Spec2Model ----------------------------
(***************************************************************************)
(* A model of internal/cachevalue/cache.go: Cache[T], a single-value TTL   *)
(* cache with a pluggable update function.                                 *)
(*                                                                         *)
(* Time is counted in ticks, TicksPerMs ticks to the millisecond, so that  *)
(* time.Duration values (ttl, time.Since) keep a finer resolution than the *)
(* millisecond timestamps the cache stores (UnixMilli, Milliseconds).      *)
(*                                                                         *)
(* Each goroutine is a process with a program counter named after the line *)
(* of cache.go it is about to execute.  Every access to a shared field     *)
(* (val, lastUpdateMs, updating, ttl, opts, updateFn, Once) is a step of   *)
(* its own.                                                                *)
(***************************************************************************)
EXTENDS Integers, Sequences, FiniteSets, TLC

\* ------------------------------------------------------------------ bounds

NumProcs   == 2      \* goroutines calling GetWithCtx / InitOnce
MaxCalls   == 3      \* GetWithCtx calls in all, under Spec
MaxGets    == 2      \* GetWithCtx calls in all, under SpecInit
MaxInits   == 2      \* InitOnce calls in all
MaxTicks   == 5      \* ticks of the clock after construction
TicksPerMs == 2      \* resolution of time.Duration relative to a millisecond
StartMs    == 4      \* the clock at construction, in ms since the Unix epoch
MaxCancels == 1      \* cancellations of a caller's context, under SpecCtx

Procs  == 1..NumProcs
BG     == 0                     \* the goroutine of cache.go:109
Flows  == Procs \cup {BG}       \* everything that can run update()

NilPtr == 0                     \* a nil *T
ZeroT  == 0                     \* var empty T
NilErr == 0                     \* a nil error
NilFn  == "nil"                 \* a nil updateFn
Free   == -1                    \* updating is unlocked
Background == 0                 \* context.Background()
NoCtx  == -1                    \* no context: the flow is not inside update
Pending == -1                   \* the refresh of a loaded value has not stamped

TTLs   == {TicksPerMs, TicksPerMs + 1}     \* 1ms and a ttl that is no whole ms

\* ------------------------------------------------------------ time package

\* time.Time.UnixMilli: a clock reading truncated to milliseconds.
UnixMilli(t) == t \div TicksPerMs

\* time.Duration.Milliseconds: a duration truncated to milliseconds.
Milliseconds(d) == d \div TicksPerMs

\* time.UnixMilli: the time.Time of a millisecond timestamp.
TimeUnixMilli(ms) == ms * TicksPerMs

\* ------------------------------------------------------------------- state

VARIABLES
    ttl,            \* Cache.ttl, a time.Duration in ticks          (cache.go:50)
    opts,           \* Cache.opts                                   (cache.go:53)
    updateFn,       \* Cache.updateFn                               (cache.go:46)
    once,           \* Cache.Once: "new", "running" or "done"       (cache.go:57)
    bind,           \* the arguments of the call whose function Once ran
    val,            \* Cache.val: NilPtr or the value pointed to    (cache.go:60)
    lastUpdateMs,   \* Cache.lastUpdateMs                           (cache.go:61)
    updating,       \* Cache.updating: Free or the flow holding it  (cache.go:62)
    now,            \* the wall clock, in ticks
    ctor,           \* the constructor that allocated the cache
    pc,             \* per flow: the line it is about to execute
    loc,            \* per flow: the locals of GetWithCtx and update
    arg,            \* per goroutine: the arguments of its InitOnce call
    ret,            \* per goroutine: what its last GetWithCtx returned
    calls,          \* GetWithCtx calls the goroutines have yet to make
    inits,          \* InitOnce calls the goroutines have yet to make
    nrefresh,       \* invocations of updateFn so far
    tsTick,         \* the clock, in ticks, when lastUpdateMs was last stored
    spawns,         \* per start of the goroutine of line 109: the stamp seen
    tsBy,           \* the updateFn invocation whose result lastUpdateMs stamps
    hist,           \* history of the current / last call of each goroutine
    ctxDone,        \* the goroutines whose ctx argument has been cancelled
    cancels         \* cancellations the callers have yet to make

cache == <<ttl, opts, updateFn>>
guard == <<once, bind>>
count == <<nrefresh, tsTick, spawns>>
store == <<val, lastUpdateMs, tsBy>>
ctxs  == <<ctxDone, cancels>>
vars  == <<ttl, opts, updateFn, once, bind, val, lastUpdateMs, updating, now, ctor,
           pc, loc, arg, ret, calls, inits, nrefresh, tsTick, spawns, tsBy,
           hist, ctxDone, cancels>>

\* type Opts struct
Opts   == [ReturnLastGood : BOOLEAN, NoWait : BOOLEAN]

\* The arguments of NewFromFunc and InitOnce.
Params == [ttl : TTLs, opts : Opts, fn : {"f1"}]

\* The arguments the goroutines of SpecInit pass: two that differ in each field.
InitArgs ==
    { [ttl |-> TicksPerMs, opts |-> [ReturnLastGood |-> FALSE, NoWait |-> TRUE],
       fn |-> "f1"],
      [ttl |-> TicksPerMs + 1, opts |-> [ReturnLastGood |-> TRUE, NoWait |-> FALSE],
       fn |-> "f2"] }

NoArg  == [ttl |-> 0, opts |-> [ReturnLastGood |-> FALSE, NoWait |-> FALSE],
           fn |-> NilFn]

\* The locals of a flow before it has assigned any.
\*   ctx   the context update was called with: a goroutine's, or Background
\*   vTick the clock when the refresh that produced v stamped lastUpdateMs
NoLoc  == [v |-> NilPtr, ttl |-> 0, vTime |-> 0, vBy |-> 0, tNow |-> 0,
           nv |-> NilPtr, err |-> NilErr, ctx |-> NoCtx, vTick |-> Pending]

NoRet  == [val |-> NilPtr, err |-> NilErr, path |-> "none"]

\* What the model remembers of the current or last call of a goroutine.
\*   with       the goroutines whose current or last call overlaps this one
\*   expired    the cache was empty or past its ttl when the call started
\*   startBy    the refresh whose timestamp was stored when the call started
\*   startTick  the clock when that timestamp was stored (until line 97)
\*   within     line 97 read the clock less than ttl after startTick
\*   withinMs   the same, in the milliseconds that line 100 compares
\*   seen       the value line 94 loaded
\*   mustBlock  as read by lines 94-107: no value, or age >= ttl without
\*              NoWait, or age >= 2*ttl
\*   staleTk    as read by lines 94-107: NoWait, a value, ttl <= age < 2*ttl
\*   staleMs    the same, in the milliseconds that line 107 compares
\*   locked     the call acquired updating at line 118
\*   lockBy     the refresh whose timestamp line 122 read
\*   lockFresh  line 122 found that timestamp less than ttl old
\*   invoked    the call invoked updateFn
\*   spawned    the call started the goroutine of line 109
\*   failed     the error of the call's own invocation of updateFn
\*   prev       the value stored when that invocation failed
\*   tooOld     line 97 read the clock ttl or more (2*ttl or more with
\*              NoWait) after the refresh that produced the loaded value
NoHist == [with |-> {}, expired |-> FALSE, startBy |-> 0, startTick |-> 0,
           within |-> FALSE, withinMs |-> FALSE, seen |-> NilPtr,
           mustBlock |-> FALSE, staleTk |-> FALSE, staleMs |-> FALSE,
           locked |-> FALSE, lockBy |-> 0, lockFresh |-> FALSE,
           invoked |-> 0, spawned |-> 0, failed |-> NilErr, prev |-> NilPtr,
           tooOld |-> FALSE]

\* time.Since(t), t in ticks
Since(t) == now - t

\* New[T](): an unbound cache.  NewFromFunc(ttl, opts, update): a bound one.
\* Neither touches Once, val, lastUpdateMs or updating.
New ==
    /\ ctor = "New"
    /\ ttl = 0
    /\ opts = [ReturnLastGood |-> FALSE, NoWait |-> FALSE]
    /\ updateFn = NilFn

NewFromFunc(p) ==
    /\ ctor = "NewFromFunc"
    /\ ttl = p.ttl
    /\ updateFn = p.fn
    /\ opts = p.opts

\* The fields neither constructor sets, and the goroutines before they run.
Zeroed ==
    /\ once = "new"
    /\ bind = NoArg
    /\ val = NilPtr
    /\ lastUpdateMs = 0
    /\ updating = Free
    /\ now = StartMs * TicksPerMs
    /\ pc = [f \in Flows |-> "idle"]
    /\ loc = [f \in Flows |-> NoLoc]
    /\ arg = [p \in Procs |-> NoArg]
    /\ ret = [p \in Procs |-> NoRet]
    /\ nrefresh = 0
    /\ tsTick = 0
    /\ spawns = <<>>
    /\ tsBy = 0
    /\ hist = [p \in Procs |-> NoHist]
    /\ ctxDone = {}

\* A cache built by NewFromFunc, on which no goroutine calls InitOnce.
Init ==
    /\ \E a \in Params : NewFromFunc(a)
    /\ Zeroed
    /\ calls = MaxCalls
    /\ inits = 0
    /\ cancels = 0

\* A cache built by either constructor, on which goroutines call InitOnce.
InitInit ==
    /\ New \/ \E a \in InitArgs : NewFromFunc(a)
    /\ Zeroed
    /\ calls = MaxGets
    /\ inits = MaxInits
    /\ cancels = 0

\* A cache built by NewFromFunc whose callers' contexts may be cancelled.
InitCtx ==
    /\ \E a \in Params : NewFromFunc(a)
    /\ Zeroed
    /\ calls = MaxGets
    /\ inits = 0
    /\ cancels = MaxCancels

\* ----------------------------------------------------------------- helpers

\* The cache may be used: NewFromFunc built it, or an InitOnce call returned.
Bound == ctor = "NewFromFunc" \/ once = "done"

\* The flows inside updateFn.
InFlight == {f \in Flows : pc[f] = "inFn"}

\* AfterUpdate as it would be were the result of update not tested.
AfterUpdateUntested(f, err) == IF f = BG THEN "L110" ELSE "L134"

\* Where update() returns to: GetWithCtx line 129, or the goroutine of line 109.
AfterUpdate(f, err) ==
    IF f = BG THEN "L110" ELSE IF err = NilErr THEN "L134" ELSE "L131"

\* return x, e from GetWithCtx.
Return(p, x, e, path) ==
    /\ ret' = [ret EXCEPT ![p] = [val |-> x, err |-> e, path |-> path]]
    /\ pc' = [pc EXCEPT ![p] = "idle"]
    /\ loc' = [loc EXCEPT ![p] = NoLoc]

\* --------------------------------------------------------------- InitOnce

\* cache.go:80: a goroutine calls InitOnce(ttl, opts, update).
InitOnce(p, a) ==
    /\ pc[p] = "idle"
    /\ inits > 0
    /\ inits' = inits - 1
    /\ arg' = [arg EXCEPT ![p] = a]
    /\ pc' = [pc EXCEPT ![p] = "L81"]
    /\ UNCHANGED <<ctxs, cache, guard, store, updating, now, ctor, loc, ret, calls,
                   count, hist>>

\* OnceDo as it would be were Once a plain mutex: every caller runs f.
OnceDoEvery(p) ==
    /\ pc[p] = "L81"
    /\ once # "running"
    /\ once' = "running"
    /\ bind' = IF once = "new" THEN arg[p] ELSE bind
    /\ pc' = [pc EXCEPT ![p] = "L82"]
    /\ UNCHANGED <<ctxs, cache, store, updating, now, ctor, loc, arg, ret, calls,
                   inits, count, hist>>

\* cache.go:81: t.Once.Do(f).  The first caller runs f; a caller that arrives
\* while f runs waits for it; a caller that arrives later returns at once.
OnceDo(p) ==
    /\ pc[p] = "L81"
    /\ \/ /\ once = "new"
          /\ once' = "running"
          /\ bind' = arg[p]
          /\ pc' = [pc EXCEPT ![p] = "L82"]
       \/ /\ once = "done"
          /\ UNCHANGED guard
          /\ pc' = [pc EXCEPT ![p] = "idle"]
    /\ UNCHANGED <<ctxs, cache, store, updating, now, ctor, loc, arg, ret, calls,
                   inits, count, hist>>

\* cache.go:82: t.ttl = ttl
InitTTL(p) ==
    /\ pc[p] = "L82"
    /\ ttl' = arg[p].ttl
    /\ pc' = [pc EXCEPT ![p] = "L83"]
    /\ UNCHANGED <<ctxs, opts, updateFn, guard, store, updating, now, ctor, loc, arg,
                   ret, calls, inits, count, hist>>

\* cache.go:83: t.updateFn = update
InitUpdateFn(p) ==
    /\ pc[p] = "L83"
    /\ updateFn' = arg[p].fn
    /\ pc' = [pc EXCEPT ![p] = "L84"]
    /\ UNCHANGED <<ctxs, ttl, opts, guard, store, updating, now, ctor, loc, arg, ret,
                   calls, inits, count, hist>>

\* cache.go:84: t.opts = opts
InitOpts(p) ==
    /\ pc[p] = "L84"
    /\ opts' = arg[p].opts
    /\ pc' = [pc EXCEPT ![p] = "L85"]
    /\ UNCHANGED <<ctxs, ttl, updateFn, guard, store, updating, now, ctor, loc, arg,
                   ret, calls, inits, count, hist>>

\* cache.go:85: f returned; Once.Do marks itself done and returns.
OnceDone(p) ==
    /\ pc[p] = "L85"
    /\ once' = "done"
    /\ bind' = bind
    /\ pc' = [pc EXCEPT ![p] = "idle"]
    /\ UNCHANGED <<ctxs, cache, store, updating, now, ctor, loc, arg, ret, calls,
                   inits, count, hist>>

\* ---------------------------------------------------------------- history

\* The goroutines inside a GetWithCtx call.
Active == {q \in Procs : pc[q] \in {"L94", "L95", "L96", "L97", "L107", "L108",
                                    "L118", "L122", "L145", "inFn", "L148",
                                    "L155", "L156", "L131", "L134"}}

\* A call starts.
HistStart(p) ==
    hist' = [q \in Procs |->
               IF q = p
               THEN [NoHist EXCEPT
                       !.with = Active \ {p},
                       !.expired = (val = NilPtr
                                    \/ UnixMilli(now) - lastUpdateMs
                                           >= Milliseconds(ttl)),
                       !.startBy = tsBy,
                       !.startTick = tsTick]
               ELSE [hist[q] EXCEPT
                       !.with = IF q \in Active THEN @ \cup {p} ELSE @ \ {p}]]

\* Line 94 has loaded v.
HistSeen(p) == hist' = [hist EXCEPT ![p].seen = val]

\* Line 97 has read the clock; l holds the locals.
HistClock(p, l) ==
    hist' = [hist EXCEPT
               ![p].within = (hist[p].startBy # 0
                              /\ now - hist[p].startTick < l.ttl),
               ![p].withinMs = (hist[p].startBy # 0
                                /\ UnixMilli(now) - UnixMilli(hist[p].startTick)
                                       < Milliseconds(l.ttl)),
               ![p].startTick = 0,
               ![p].tooOld = /\ l.v # NilPtr /\ l.vTick # Pending
                             /\ now - l.vTick >= IF opts.NoWait THEN 2 * l.ttl
                                                 ELSE l.ttl]

\* The age line 97 computed, as a duration.
Age(l) == TimeUnixMilli(l.tNow - l.vTime)

\* Line 107 has read opts.NoWait; l holds the locals.
HistAge(p, l) ==
    hist' = [hist EXCEPT
               ![p].mustBlock = \/ l.v = NilPtr
                                \/ Age(l) >= l.ttl /\ ~opts.NoWait
                                \/ Age(l) >= 2 * l.ttl,
               ![p].staleTk = /\ opts.NoWait /\ l.v # NilPtr
                              /\ l.ttl <= Age(l) /\ Age(l) < 2 * l.ttl,
               ![p].staleMs = /\ opts.NoWait /\ l.v # NilPtr
                              /\ Milliseconds(l.ttl) <= l.tNow - l.vTime
                              /\ l.tNow - l.vTime < 2 * Milliseconds(l.ttl)]

\* Line 122 has read the timestamp and the clock.
HistLock(p) ==
    hist' = [hist EXCEPT
               ![p].lockBy = tsBy,
               ![p].lockFresh = (now - TimeUnixMilli(lastUpdateMs) < ttl)]

\* ------------------------------------------------------------- GetWithCtx

\* cache.go:92: a goroutine calls GetWithCtx (or Get, cache.go:139).
GetWithCtx(p) ==
    /\ pc[p] = "idle"
    /\ Bound
    /\ calls > 0
    /\ calls' = calls - 1
    /\ ret' = [ret EXCEPT ![p] = NoRet]
    /\ pc' = [pc EXCEPT ![p] = "L94"]
    /\ HistStart(p)
    /\ UNCHANGED <<ctxs, cache, guard, store, updating, now, ctor, loc, arg, inits,
                   count>>

\* cache.go:94: v := t.val.Load()
LoadVal(p) ==
    /\ pc[p] = "L94"
    /\ loc' = [loc EXCEPT ![p].v = val,
                          ![p].vTick = IF val # NilPtr /\ val = tsBy
                                       THEN tsTick ELSE Pending]
    /\ pc' = [pc EXCEPT ![p] = "L95"]
    /\ HistSeen(p)
    /\ UNCHANGED <<ctxs, cache, guard, store, updating, now, ctor, arg, ret, calls,
                   inits, count>>

\* cache.go:95: ttl := t.ttl
LoadTTL(p) ==
    /\ pc[p] = "L95"
    /\ loc' = [loc EXCEPT ![p].ttl = ttl]
    /\ pc' = [pc EXCEPT ![p] = "L96"]
    /\ UNCHANGED <<ctxs, cache, guard, store, updating, now, ctor, arg, ret, calls,
                   inits, count, hist>>

\* cache.go:96: vTime := t.lastUpdateMs.Load()
LoadTime(p) ==
    /\ pc[p] = "L96"
    /\ loc' = [loc EXCEPT ![p].vTime = lastUpdateMs, ![p].vBy = tsBy]
    /\ pc' = [pc EXCEPT ![p] = "L97"]
    /\ UNCHANGED <<ctxs, cache, guard, store, updating, now, ctor, arg, ret, calls,
                   inits, count, hist>>

\* IsFresh as it would be with the bound off by one.
IsFreshOffByOne(l) ==
    l.v # NilPtr /\ l.tNow - l.vTime < Milliseconds(l.ttl) - 1

\* cache.go:100: v != nil && tNow-vTime < ttl.Milliseconds()
IsFresh(l) == l.v # NilPtr /\ l.tNow - l.vTime < Milliseconds(l.ttl)

\* IsStale as it would be without the bound of twice the ttl.
IsStaleUnbounded(l) == l.v # NilPtr

\* cache.go:107, without t.opts.NoWait:
\* v != nil && tNow-vTime < ttl.Milliseconds()*2
IsStale(l) == l.v # NilPtr /\ l.tNow - l.vTime < Milliseconds(l.ttl) * 2

\* cache.go:97-102: tNow := time.Now().UnixMilli(), and the fresh path.
FreshCheck(p) ==
    /\ pc[p] = "L97"
    /\ LET l == [loc[p] EXCEPT !.tNow = UnixMilli(now)] IN
       /\ IF IsFresh(l)
          THEN Return(p, l.v, NilErr, "fresh")
          ELSE /\ pc' = [pc EXCEPT ![p] = "L107"]
               /\ loc' = [loc EXCEPT ![p] = l]
               /\ ret' = ret
       /\ HistClock(p, l)
    /\ UNCHANGED <<ctxs, cache, guard, store, updating, now, ctor, arg, calls, inits,
                   count>>

\* cache.go:107: t.opts.NoWait && v != nil && tNow-vTime < ttl.Milliseconds()*2
\* Past this line the synchronous path reads no local but ttl, and the model
\* forgets the others.
StaleCheck(p) ==
    /\ pc[p] = "L107"
    /\ IF opts.NoWait /\ IsStale(loc[p])
       THEN /\ pc' = [pc EXCEPT ![p] = "L108"]
            /\ loc' = loc
       ELSE /\ pc' = [pc EXCEPT ![p] = "L118"]
            /\ loc' = [loc EXCEPT ![p] = [NoLoc EXCEPT !.ttl = loc[p].ttl]]
    /\ HistAge(p, loc[p])
    /\ UNCHANGED <<ctxs, cache, guard, store, updating, now, ctor, arg, ret, calls,
                   inits, count>>

\* TryLock as it would be were Unlock deferred in GetWithCtx and not in the
\* goroutine: the lock is released when the call returns.
TryLockReleased(p) ==
    /\ pc[p] = "L108"
    /\ IF updating = Free
       THEN /\ pc' = [pc EXCEPT ![p] = "idle", ![BG] = "L145"]
            /\ hist' = [hist EXCEPT ![p].spawned = 1]
            /\ spawns' = Append(spawns, loc[p].vBy)
       ELSE /\ pc' = [pc EXCEPT ![p] = "idle"]
            /\ hist' = hist
            /\ spawns' = spawns
    /\ updating' = updating
    /\ loc' = [loc EXCEPT ![p] = NoLoc,
                          ![BG] = IF updating = Free
                                  THEN [NoLoc EXCEPT !.ctx = Background]
                                  ELSE @]
    /\ ret' = [ret EXCEPT ![p] =
                 [val |-> loc[p].v, err |-> NilErr, path |-> "stale"]]
    /\ UNCHANGED <<ctxs, cache, guard, store, now, ctor, arg, calls, inits,
                   nrefresh, tsTick>>

\* TryLock as it would be were the goroutine to run update(ctx) with the
\* context of the caller.
TryLockCallerCtx(p) ==
    /\ pc[p] = "L108"
    /\ IF updating = Free
       THEN /\ updating' = BG
            /\ pc' = [pc EXCEPT ![p] = "idle", ![BG] = "L145"]
            /\ hist' = [hist EXCEPT ![p].spawned = 1]
            /\ spawns' = Append(spawns, loc[p].vBy)
       ELSE /\ updating' = updating
            /\ pc' = [pc EXCEPT ![p] = "idle"]
            /\ hist' = hist
            /\ spawns' = spawns
    /\ loc' = [loc EXCEPT ![p] = NoLoc,
                          ![BG] = IF updating = Free
                                  THEN [NoLoc EXCEPT !.ctx = p]
                                  ELSE @]
    /\ ret' = [ret EXCEPT ![p] =
                 [val |-> loc[p].v, err |-> NilErr, path |-> "stale"]]
    /\ UNCHANGED <<ctxs, cache, guard, store, now, ctor, arg, calls, inits,
                   nrefresh, tsTick>>

\* TryLock as it would be were it Lock: the caller waits for the mutex.
TryLockWaits(p) ==
    /\ pc[p] = "L108"
    /\ updating = Free
    /\ updating' = BG
    /\ pc' = [pc EXCEPT ![p] = "idle", ![BG] = "L145"]
    /\ hist' = [hist EXCEPT ![p].spawned = 1]
    /\ spawns' = Append(spawns, loc[p].vBy)
    /\ loc' = [loc EXCEPT ![p] = NoLoc,
                          ![BG] = [NoLoc EXCEPT !.ctx = Background]]
    /\ ret' = [ret EXCEPT ![p] =
                 [val |-> loc[p].v, err |-> NilErr, path |-> "stale"]]
    /\ UNCHANGED <<ctxs, cache, guard, store, now, ctor, arg, calls, inits, nrefresh,
                   tsTick>>

\* TryLock as it would be were the goroutine started whatever TryLock says.
TryLockIgnored(p) ==
    /\ pc[p] = "L108"
    /\ updating' = BG
    /\ pc' = [pc EXCEPT ![p] = "idle", ![BG] = "L145"]
    /\ hist' = [hist EXCEPT ![p].spawned = 1]
    /\ spawns' = Append(spawns, loc[p].vBy)
    /\ loc' = [loc EXCEPT ![p] = NoLoc,
                          ![BG] = [NoLoc EXCEPT !.ctx = Background]]
    /\ ret' = [ret EXCEPT ![p] =
                 [val |-> loc[p].v, err |-> NilErr, path |-> "stale"]]
    /\ UNCHANGED <<ctxs, cache, guard, store, now, ctor, arg, calls, inits, nrefresh,
                   tsTick>>

\* cache.go:108-114: t.updating.TryLock(); when it succeeds, start the
\* goroutine that runs update(context.Background()); return *v, nil.
TryLock(p) ==
    /\ pc[p] = "L108"
    /\ IF updating = Free
       THEN /\ updating' = BG
            /\ pc' = [pc EXCEPT ![p] = "idle", ![BG] = "L145"]
            /\ hist' = [hist EXCEPT ![p].spawned = 1]
            /\ spawns' = Append(spawns, loc[p].vBy)
       ELSE /\ updating' = updating
            /\ pc' = [pc EXCEPT ![p] = "idle"]
            /\ hist' = hist
            /\ spawns' = spawns
    /\ loc' = [loc EXCEPT ![p] = NoLoc,
                          ![BG] = IF updating = Free
                                  THEN [NoLoc EXCEPT !.ctx = Background]
                                  ELSE @]
    /\ ret' = [ret EXCEPT ![p] =
                 [val |-> loc[p].v, err |-> NilErr, path |-> "stale"]]
    /\ UNCHANGED <<ctxs, cache, guard, store, now, ctor, arg, calls, inits, nrefresh,
                   tsTick>>

\* Lock as it would be were the mutex not to block.
LockNoBlock(p) ==
    /\ pc[p] = "L118"
    /\ updating' = p
    /\ pc' = [pc EXCEPT ![p] = "L122"]
    /\ hist' = [hist EXCEPT ![p].locked = TRUE]
    /\ UNCHANGED <<ctxs, cache, guard, store, now, ctor, loc, arg, ret, calls, inits,
                   count>>

\* cache.go:118: t.updating.Lock()
Lock(p) ==
    /\ pc[p] = "L118"
    /\ updating = Free
    /\ updating' = p
    /\ pc' = [pc EXCEPT ![p] = "L122"]
    /\ hist' = [hist EXCEPT ![p].locked = TRUE]
    /\ UNCHANGED <<ctxs, cache, guard, store, now, ctor, loc, arg, ret, calls, inits,
                   count>>

\* DoubleCheck as it would be were the age compared with ttl.Milliseconds().
DoubleCheckUnits(p) ==
    /\ pc[p] = "L122"
    /\ IF /\ Since(TimeUnixMilli(lastUpdateMs)) < Milliseconds(loc[p].ttl)
          /\ val # NilPtr
       THEN /\ Return(p, val, NilErr, "recheck")
            /\ updating' = Free
       ELSE /\ pc' = [pc EXCEPT ![p] = "L145"]
            /\ loc' = [loc EXCEPT ![p] = [NoLoc EXCEPT !.ctx = p]]
            /\ ret' = ret
            /\ updating' = updating
    /\ HistLock(p)
    /\ UNCHANGED <<ctxs, cache, guard, store, now, ctor, arg, calls, inits,
                   count>>

\* DoubleCheck as it would be without the second check.
DoubleCheckSkipped(p) ==
    /\ pc[p] = "L122"
    /\ pc' = [pc EXCEPT ![p] = "L145"]
    /\ loc' = [loc EXCEPT ![p] = [NoLoc EXCEPT !.ctx = p]]
    /\ HistLock(p)
    /\ UNCHANGED <<ctxs, cache, guard, store, updating, now, ctor, arg, ret, calls,
                   inits, count>>

\* cache.go:122-126: the second check, made holding the lock, and the
\* deferred Unlock of line 119 when it returns.  update() reads no local of
\* GetWithCtx.
DoubleCheck(p) ==
    /\ pc[p] = "L122"
    /\ IF Since(TimeUnixMilli(lastUpdateMs)) < loc[p].ttl /\ val # NilPtr
       THEN /\ Return(p, val, NilErr, "recheck")
            /\ updating' = Free
       ELSE /\ pc' = [pc EXCEPT ![p] = "L145"]
            /\ loc' = [loc EXCEPT ![p] = [NoLoc EXCEPT !.ctx = p]]
            /\ ret' = ret
            /\ updating' = updating
    /\ HistLock(p)
    /\ UNCHANGED <<ctxs, cache, guard, store, now, ctor, arg, calls, inits, count>>

\* ------------------------------------------------------------------ update

\* cache.go:145: update calls t.updateFn(ctx).  The value an invocation
\* would return is the number of the invocation.
CallUpdateFn(f) ==
    /\ pc[f] = "L145"
    /\ updateFn # NilFn
    /\ nrefresh' = nrefresh + 1
    /\ loc' = [loc EXCEPT ![f].nv = nrefresh + 1]
    /\ pc' = [pc EXCEPT ![f] = "inFn"]
    /\ hist' = IF f = BG THEN hist ELSE [hist EXCEPT ![f].invoked = 1]
    /\ UNCHANGED <<ctxs, cache, guard, store, updating, now, ctor, arg, ret, calls,
                   inits, tsTick, spawns>>

\* cache.go:145-146: updateFn returns a value, or an error.  An updateFn
\* whose context has been cancelled returns an error.
FnReturn(f) ==
    /\ pc[f] = "inFn"
    /\ \/ /\ loc[f].ctx \notin ctxDone
          /\ loc' = [loc EXCEPT ![f].err = NilErr]
          /\ pc' = [pc EXCEPT ![f] = "L155"]
          /\ hist' = hist
       \/ /\ loc' = [loc EXCEPT ![f].err = loc[f].nv, ![f].nv = NilPtr]
          /\ pc' = [pc EXCEPT ![f] = "L148"]
          /\ hist' = IF f = BG THEN hist
                     ELSE [hist EXCEPT ![f].failed = loc[f].nv, ![f].prev = val]
    /\ UNCHANGED <<ctxs, cache, guard, store, updating, now, ctor, arg, ret, calls,
                   inits, count>>

\* Suppress as it would be without the test for a stored value.
SuppressUnchecked == opts.ReturnLastGood

\* Suppress as it would be were ReturnLastGood not consulted.
SuppressAlways == val # NilPtr

\* cache.go:148-151: t.opts.ReturnLastGood && t.val.Load() != nil
Suppress == opts.ReturnLastGood /\ val # NilPtr

\* UpdateFailed as it would be were the failed result stored.
UpdateFailedStores(f) ==
    /\ pc[f] = "L148"
    /\ LET e == IF Suppress THEN NilErr ELSE loc[f].err IN
       /\ loc' = [loc EXCEPT ![f].err = e]
       /\ pc' = [pc EXCEPT ![f] = AfterUpdate(f, e)]
    /\ val' = loc[f].nv
    /\ UNCHANGED <<ctxs, cache, guard, lastUpdateMs, tsBy, updating, now, ctor, arg,
                   ret, calls, inits, count, hist>>

\* UpdateFailed as it would be were a failed refresh to renew the timestamp.
UpdateFailedStamps(f) ==
    /\ pc[f] = "L148"
    /\ LET e == IF Suppress THEN NilErr ELSE loc[f].err IN
       /\ loc' = [loc EXCEPT ![f].err = e]
       /\ pc' = [pc EXCEPT ![f] = AfterUpdate(f, e)]
    /\ lastUpdateMs' = UnixMilli(now)
    /\ UNCHANGED <<ctxs, cache, guard, val, tsBy, updating, now, ctor, arg, ret,
                   calls, inits, count, hist>>

\* cache.go:146-151: the failure branch of update.
UpdateFailed(f) ==
    /\ pc[f] = "L148"
    /\ LET e == IF Suppress THEN NilErr ELSE loc[f].err IN
       /\ loc' = [loc EXCEPT ![f].err = e]
       /\ pc' = [pc EXCEPT ![f] = AfterUpdate(f, e)]
    /\ UNCHANGED <<ctxs, cache, guard, store, updating, now, ctor, arg, ret, calls,
                   inits, count, hist>>

\* StoreVal as it would be were the timestamp stored before the value:
\* line 155 stamps, and the value is not yet stored when line 156 runs.
StoreValStampsFirst(f) ==
    /\ pc[f] = "L155"
    /\ lastUpdateMs' = UnixMilli(now)
    /\ pc' = [pc EXCEPT ![f] = "L156"]
    /\ UNCHANGED <<ctxs, cache, guard, val, tsBy, updating, now, ctor, loc,
                   arg, ret, calls, inits, count, hist>>

\* cache.go:155: t.val.Store(&val)
StoreVal(f) ==
    /\ pc[f] = "L155"
    /\ val' = loc[f].nv
    /\ pc' = [pc EXCEPT ![f] = "L156"]
    /\ UNCHANGED <<ctxs, cache, guard, lastUpdateMs, tsBy, updating, now, ctor, loc,
                   arg, ret, calls, inits, count, hist>>

\* cache.go:156-157: t.lastUpdateMs.Store(time.Now().UnixMilli()); return nil
StoreTime(f) ==
    /\ pc[f] = "L156"
    /\ lastUpdateMs' = UnixMilli(now)
    /\ tsBy' = loc[f].nv
    /\ tsTick' = now
    /\ pc' = [pc EXCEPT ![f] = AfterUpdate(f, NilErr)]
    /\ UNCHANGED <<ctxs, cache, guard, val, updating, now, ctor, loc, arg, ret, calls,
                   inits, nrefresh, spawns, hist>>

\* ReturnErr as it would be were Unlock not deferred but called at line 134.
ReturnErrLocked(p) ==
    /\ pc[p] = "L131"
    /\ Return(p, ZeroT, loc[p].err, "error")
    /\ UNCHANGED <<ctxs, cache, guard, store, updating, now, ctor, arg, calls,
                   inits, count, hist>>

\* cache.go:129-132: update failed: return empty, err; the deferred Unlock.
ReturnErr(p) ==
    /\ pc[p] = "L131"
    /\ Return(p, ZeroT, loc[p].err, "error")
    /\ updating' = Free
    /\ UNCHANGED <<ctxs, cache, guard, store, now, ctor, arg, calls, inits, count,
                   hist>>

\* cache.go:134: return *t.val.Load(), nil; the deferred Unlock.  Dereferencing
\* a nil pointer panics.
ReturnVal(p) ==
    /\ pc[p] = "L134"
    /\ IF val = NilPtr
       THEN /\ pc' = [pc EXCEPT ![p] = "panic"]
            /\ loc' = loc
            /\ ret' = ret
       ELSE Return(p, val, NilErr, "updated")
    /\ updating' = Free
    /\ UNCHANGED <<ctxs, cache, guard, store, now, ctor, arg, calls, inits, count,
                   hist>>

\* cache.go:110: the goroutine's deferred t.updating.Unlock().
BgUnlock ==
    /\ pc[BG] = "L110"
    /\ updating' = Free
    /\ pc' = [pc EXCEPT ![BG] = "idle"]
    /\ loc' = [loc EXCEPT ![BG] = NoLoc]
    /\ UNCHANGED <<ctxs, cache, guard, store, now, ctor, arg, ret, calls, inits,
                   count, hist>>

\* ------------------------------------------------------------------- clock

\* Time passes.
Tick ==
    /\ now < StartMs * TicksPerMs + MaxTicks
    /\ now' = now + 1
    /\ UNCHANGED <<ctxs, cache, guard, store, updating, ctor, pc, loc, arg, ret,
                   calls, inits, count, hist>>

\* ----------------------------------------------------------------- context

\* The caller of GetWithCtx cancels the context it passes, before, during or
\* after a call.
Cancel(p) ==
    /\ cancels > 0
    /\ p \notin ctxDone
    /\ ctxDone' = ctxDone \cup {p}
    /\ cancels' = cancels - 1
    /\ UNCHANGED <<cache, guard, store, updating, now, ctor, pc, loc, arg, ret,
                   calls, inits, count, hist>>

\* ----------------------------------------------------------- specification

NextCtx == \E p \in Procs : Cancel(p)

NextInit ==
    \/ \E p \in Procs : \E a \in InitArgs : InitOnce(p, a)
    \/ \E p \in Procs : OnceDo(p)
    \/ \E p \in Procs : InitTTL(p)
    \/ \E p \in Procs : InitUpdateFn(p)
    \/ \E p \in Procs : InitOpts(p)
    \/ \E p \in Procs : OnceDone(p)

Next ==
    \/ Tick
    \/ BgUnlock
    \/ \E p \in Procs : GetWithCtx(p)
    \/ \E p \in Procs : LoadVal(p)
    \/ \E p \in Procs : LoadTTL(p)
    \/ \E p \in Procs : LoadTime(p)
    \/ \E p \in Procs : FreshCheck(p)
    \/ \E p \in Procs : StaleCheck(p)
    \/ \E p \in Procs : TryLock(p)
    \/ \E p \in Procs : Lock(p)
    \/ \E p \in Procs : DoubleCheck(p)
    \/ \E p \in Procs : ReturnErr(p)
    \/ \E p \in Procs : ReturnVal(p)
    \/ \E f \in Flows : CallUpdateFn(f)
    \/ \E f \in Flows : FnReturn(f)
    \/ \E f \in Flows : UpdateFailed(f)
    \/ \E f \in Flows : StoreVal(f)
    \/ \E f \in Flows : StoreTime(f)

Spec == Init /\ [][Next]_vars

SpecInit == InitInit /\ [][Next \/ NextInit]_vars

SpecCtx == InitCtx /\ [][Next \/ NextCtx]_vars

\* A cache built by NewFromFunc, for the specification with fairness.
InitFair ==
    /\ \E a \in Params : NewFromFunc(a)
    /\ Zeroed
    /\ calls = MaxGets
    /\ inits = 0
    /\ cancels = 0

\* The steps of a goroutine inside GetWithCtx that wait for nothing.
Proceed(p) ==
    \/ LoadVal(p) \/ LoadTTL(p) \/ LoadTime(p)
    \/ FreshCheck(p) \/ StaleCheck(p) \/ TryLock(p)
    \/ DoubleCheck(p) \/ ReturnErr(p) \/ ReturnVal(p)

\* The steps of a flow inside update; FnReturn is the termination of updateFn.
Refresh(f) ==
    \/ CallUpdateFn(f) \/ FnReturn(f) \/ UpdateFailed(f)
    \/ StoreVal(f) \/ StoreTime(f)

\* The Go scheduler runs every runnable goroutine; every invocation of
\* updateFn returns; sync.Mutex hands the lock to a goroutine that keeps
\* waiting for it.  Whether a goroutine calls GetWithCtx, and the passing of
\* time, are left free.
Fairness ==
    /\ \A p \in Procs : WF_vars(Proceed(p)) /\ SF_vars(Lock(p))
    /\ \A f \in Flows : WF_vars(Refresh(f))
    /\ WF_vars(BgUnlock)

SpecFair == InitFair /\ [][Next]_vars /\ Fairness

\* ------------------------------------------------------------ the claims

\* A goroutine's last GetWithCtx call has returned.
Done(p) == pc[p] = "idle" /\ ret[p].path # "none"

\* Two goroutines whose last calls overlapped, both started on an empty or
\* expired cache with NoWait disabled, and both have returned.
Cohort(p, q) ==
    /\ p # q /\ Done(p) /\ Done(q)
    /\ q \in hist[p].with
    /\ hist[p].expired /\ hist[q].expired
    /\ ~opts.NoWait

\* C1, as claimed: concurrent calls that start on an empty or expired cache
\* with NoWait disabled cause one invocation of updateFn between them and
\* return the same value and the same error.
C1_SingleFlightAlways ==
    \A p, q \in Procs :
        Cohort(p, q) =>
            /\ hist[p].invoked + hist[q].invoked = 1
            /\ ret[p].val = ret[q].val
            /\ ret[p].err = ret[q].err

\* C1, amended: of such calls, when one has refreshed with success and the
\* other reads that refresh's timestamp at line 122 less than ttl after it,
\* the other returns the same value with a nil error and updateFn was
\* invoked once between them.
C1_SingleFlight ==
    \A p, q \in Procs :
        ( /\ Cohort(p, q)
          /\ ret[p].path = "updated" /\ hist[p].failed = NilErr
          /\ hist[q].locked /\ hist[q].lockBy = ret[p].val
          /\ hist[q].lockFresh ) =>
            /\ hist[p].invoked + hist[q].invoked = 1
            /\ ret[q].val = ret[p].val
            /\ ret[q].err = NilErr /\ ret[p].err = NilErr

\* C1's case: two calls started on an expired cache, one refreshed and the
\* other waited for the lock and returned the refreshed value.
C1_Witness ==
    \E p, q \in Procs :
        /\ Cohort(p, q)
        /\ ret[p].path = "updated" /\ hist[p].failed = NilErr
        /\ hist[q].locked /\ hist[q].lockBy = ret[p].val /\ hist[q].lockFresh
        /\ hist[p].startBy # 0 /\ hist[q].startBy # 0
        /\ ret[q].val = ret[p].val

\* C2: at most one invocation of updateFn is in progress, whatever the
\* interleaving of synchronous calls and background refreshes.
C2_OneRefreshAtATime == Cardinality(InFlight) <= 1

\* C2's case: the background refresh is inside updateFn while a synchronous
\* caller waits for the lock.
C2_Witness == pc[BG] = "inFn" /\ \E p \in Procs : pc[p] = "L118"

\* C3: a reader never holds a value and a timestamp that two different
\* refreshes stored.  After line 96 a reader holds both.
C3_PairReadAtomically ==
    \A p \in Procs : pc[p] = "L97" => loc[p].v = loc[p].vBy

\* C4, as claimed: a call that reads the clock less than ttl after the
\* refresh that was the last to complete before the call started returns
\* that refresh's value with a nil error, and neither invokes updateFn nor
\* starts a background refresh.
C4_FreshWithinTTL ==
    \A p \in Procs :
        (Done(p) /\ hist[p].within) =>
            /\ ret[p].val = hist[p].startBy /\ ret[p].err = NilErr
            /\ hist[p].invoked = 0 /\ hist[p].spawned = 0

\* C4, amended: with the age measured as line 100 measures it, in whole
\* milliseconds of the clock, of the stored timestamp and of ttl, such a call
\* returns on the fresh path, with a nil error, the value of that refresh or
\* of a later one, and neither invokes updateFn nor starts a background
\* refresh.
C4_FreshWithinTTLMs ==
    \A p \in Procs :
        (Done(p) /\ hist[p].withinMs) =>
            /\ ret[p].path = "fresh"
            /\ ret[p].val >= hist[p].startBy /\ ret[p].err = NilErr
            /\ hist[p].invoked = 0 /\ hist[p].spawned = 0

\* C4's case: two calls in a row, by one goroutine, served by the refresh of
\* an earlier call of the other.
C4_Witness ==
    \E p \in Procs :
        /\ Done(p) /\ hist[p].withinMs /\ calls = 0
        /\ ret[p].path = "fresh" /\ ret[p].val = hist[p].startBy
        /\ \A q \in Procs \ {p} : Done(q) /\ ret[q].path = "updated"
        /\ nrefresh = 1

\* C5, as claimed: with NoWait and a value present, a call that finds the age
\* in [ttl, 2*ttl) returns the value it loaded with a nil error without
\* taking the lock, and no two background refreshes are started by calls
\* that saw the same timestamp.
C5_StaleServePerWindow ==
    /\ \A p \in Procs :
          (Done(p) /\ hist[p].staleTk) =>
              /\ ret[p].val = hist[p].seen /\ ret[p].err = NilErr
              /\ ~hist[p].locked
    /\ \A i, j \in DOMAIN spawns : i # j => spawns[i] # spawns[j]

\* C5, amended: with the age measured as line 107 measures it, in whole
\* milliseconds of the clock, of the stored timestamp and of ttl, such a call
\* returns the value it loaded with a nil error without taking the lock or
\* invoking updateFn; and a background refresh is started only while no
\* refresh, synchronous or background, holds the lock.
C5_StaleServe ==
    /\ [](\A p \in Procs :
            (Done(p) /\ hist[p].staleMs) =>
                /\ ret[p].path = "stale"
                /\ ret[p].val = hist[p].seen /\ ret[p].val # NilPtr
                /\ ret[p].err = NilErr
                /\ ~hist[p].locked /\ hist[p].invoked = 0)
    /\ [][Len(spawns') > Len(spawns) =>
            /\ updating = Free /\ pc[BG] = "idle"
            /\ \A f \in Flows : pc[f] \notin {"L145", "inFn", "L148", "L155",
                                            "L156"}]_vars

\* C5's case: a call on the stale path started a second background refresh
\* in the window of one timestamp, the first having ended.
C5_Witness ==
    /\ Len(spawns) = 2 /\ spawns[1] = spawns[2]
    /\ \E p \in Procs :
          /\ Done(p) /\ hist[p].staleMs /\ hist[p].spawned = 1
          /\ ret[p].path = "stale"

\* C6: a call that finds no value, or the age at least ttl with NoWait
\* disabled, or the age at least 2*ttl, returns only after it has taken the
\* lock and either its own invocation of updateFn has returned, or it has
\* read at line 122 a timestamp less than ttl old, stored since the call
\* started, whose value it returns.
C6_ExpiredBlocks ==
    \A p \in Procs :
        (Done(p) /\ hist[p].mustBlock) =>
            /\ hist[p].locked
            /\ \/ ret[p].path \in {"updated", "error"} /\ hist[p].invoked = 1
               \/ /\ ret[p].path = "recheck" /\ hist[p].invoked = 0
                  /\ hist[p].lockFresh
                  /\ ret[p].val = hist[p].lockBy
                  /\ hist[p].lockBy # hist[p].startBy

\* C6's case: with NoWait enabled, a call found a value older than 2*ttl,
\* waited for the lock and returned what another call had refreshed.
C6_Witness ==
    \E p \in Procs :
        /\ Done(p) /\ hist[p].mustBlock /\ opts.NoWait
        /\ hist[p].seen # NilPtr
        /\ ret[p].path = "recheck"

Binding(a) == <<a.ttl, a.opts, a.fn>>

\* C8: on a cache allocated with New, once InitOnce has returned the bound
\* parameters are those of the one call whose function Once ran, whatever
\* the other calls passed and however the calls interleave.
C8_InitOnceBindsOnce ==
    (ctor = "New" /\ once = "done") => cache = Binding(bind)

\* C8's case: every InitOnce call has returned, and one that lost passed
\* other arguments than the one that won.
C8_Witness ==
    /\ ctor = "New" /\ once = "done" /\ inits = 0
    /\ \A p \in Procs : pc[p] = "idle"
    /\ \E p \in Procs : arg[p] # NoArg /\ arg[p] # bind

\* C9: once the cache is bound, by NewFromFunc or by the first InitOnce, no
\* step changes ttl, opts or updateFn.
C9_BindingIsFixed == [][Bound => cache' = cache]_vars

\* C10: the cache starts empty, and a stored value is never removed.
C10_PopulatedIsAbsorbing ==
    /\ val = NilPtr /\ lastUpdateMs = 0
    /\ [][val # NilPtr => val' # NilPtr]_vars

\* C10's case: a refresh has failed on a populated cache.
C10_Witness ==
    /\ val # NilPtr
    /\ \E p \in Procs : pc[p] = "L131"

\* C11: from the moment update is entered until it returns an error, be the
\* error propagated or suppressed, on the synchronous path or in the
\* background, no step of any goroutine changes val or lastUpdateMs.
C11_FailedRefreshStoresNothing ==
    [][(\E f \in Flows : pc[f] \in {"L145", "inFn", "L148"}) =>
           /\ val' = val
           /\ lastUpdateMs' = lastUpdateMs]_vars

\* C11's case: a background refresh of a populated cache has failed and
\* update has returned.
C11_Witness ==
    /\ pc[BG] = "L110" /\ loc[BG].nv = NilPtr
    /\ val # NilPtr /\ lastUpdateMs # 0

\* A call's own invocation of updateFn failed and line 148 did not suppress
\* the failure.
OwnFailure(p) ==
    /\ Done(p) /\ hist[p].failed # NilErr
    /\ ~(opts.ReturnLastGood /\ hist[p].prev # NilPtr)

\* C12, as claimed: the error of every failed invocation of updateFn that
\* ReturnLastGood does not suppress is returned by a call: by the caller on
\* the synchronous path, and by some call when the goroutine of line 109
\* ends with it.
C12_EveryErrorSignalled ==
    /\ [](\A p \in Procs : OwnFailure(p) => ret[p].err = hist[p].failed)
    /\ [][(pc[BG] = "L110" /\ loc[BG].err # NilErr /\ pc'[BG] = "idle") =>
             \E p \in Procs : ret'[p].err = loc[BG].err]_vars

\* C12, amended: the error of a failed invocation made on the synchronous
\* path, when ReturnLastGood does not suppress it, is returned by the call
\* that made the invocation; the error update returns to the goroutine of
\* line 109 is returned by no call.
C12_SyncErrorSignalled ==
    /\ [](\A p \in Procs : OwnFailure(p) => ret[p].err = hist[p].failed)
    /\ [][(pc[BG] = "L110" /\ loc[BG].err # NilErr) =>
             \A p \in Procs : ret'[p].err # loc[BG].err]_vars

\* C12's case: one call has returned the error of its own refresh, and the
\* background refresh another call started has failed unsuppressed.
C12_Witness ==
    /\ pc[BG] = "L110" /\ loc[BG].err # NilErr
    /\ \E p, q \in Procs :
          /\ OwnFailure(q) /\ ret[q].err = hist[q].failed
          /\ Done(p) /\ ret[p].path = "stale" /\ hist[p].spawned = 1

ReadPathStep(p) ==
    \/ LoadVal(p) \/ LoadTTL(p) \/ LoadTime(p)
    \/ FreshCheck(p) \/ StaleCheck(p) \/ TryLock(p)

\* C14: at every line of the fresh path and of the stale path the caller can
\* take its next step whoever holds updating, and a call that returned from
\* either path never acquired updating at line 118.
C14_ReadPathsNeverWait ==
    \A p \in Procs :
        /\ pc[p] \in {"L94", "L95", "L96", "L97", "L107", "L108"} =>
               ENABLED ReadPathStep(p)
        /\ (Done(p) /\ ret[p].path \in {"fresh", "stale"}) => ~hist[p].locked

\* C14's case: a call returned from line 114, TryLock having failed, while
\* the other goroutine, having acquired updating, is inside updateFn.
C14_Witness ==
    \E p, q \in Procs :
        /\ Done(p) /\ ret[p].path = "stale" /\ hist[p].spawned = 0
        /\ updating = q /\ pc[q] = "inFn"

\* C15: the goroutine of line 109 runs update with context.Background(),
\* which no caller cancels: whichever contexts have been cancelled, while it
\* is inside updateFn the invocation can return a value, and the value and
\* the timestamp can then be stored.
C15_DetachedRefresh ==
    /\ Background \notin ctxDone
    /\ pc[BG] # "idle" => loc[BG].ctx = Background
    /\ pc[BG] = "inFn" => ENABLED (FnReturn(BG) /\ pc'[BG] = "L155")
    /\ pc[BG] \in {"L155", "L156"} => ENABLED (StoreVal(BG) \/ StoreTime(BG))

\* C15's case: the context of the call that started the background refresh
\* has been cancelled, and the refresh has stored its value and timestamp.
C15_Witness ==
    \E p \in Procs :
        /\ Done(p) /\ hist[p].spawned = 1 /\ p \in ctxDone
        /\ pc[BG] = "L110" /\ loc[BG].nv # NilPtr
        /\ val = loc[BG].nv /\ tsBy = loc[BG].nv

\* C16, as claimed: a call that holds the lock at line 122, a refresh having
\* stamped its result since the call started and less than ttl ago,
\* returns that result with a nil error and does not enter update.
C16_DoubleCheckedAlways ==
    [][\A p \in Procs :
          ( /\ pc[p] = "L122" /\ pc'[p] # "L122"
            /\ tsBy # hist[p].startBy
            /\ now - tsTick < ttl ) =>
              /\ pc'[p] = "idle"
              /\ ret'[p].val = tsBy /\ ret'[p].err = NilErr]_vars

\* C16, amended: with the age measured as line 122 measures it, from the
\* stored timestamp, which is truncated to the millisecond, such a call
\* returns from line 124 the value of the refresh that stamped it, with a
\* nil error and without invoking updateFn.
C16_DoubleChecked ==
    \A p \in Procs :
        ( /\ Done(p) /\ hist[p].locked
          /\ hist[p].lockBy # hist[p].startBy
          /\ hist[p].lockFresh ) =>
            /\ ret[p].path = "recheck" /\ hist[p].invoked = 0
            /\ ret[p].val = hist[p].lockBy /\ ret[p].err = NilErr

\* C16's case: a call found a stored value expired, waited for the lock
\* while the call of another goroutine refreshed, and returned from line 124.
C16_Witness ==
    \E p \in Procs :
        /\ Done(p) /\ hist[p].expired /\ hist[p].startBy # 0
        /\ hist[p].with # {}
        /\ hist[p].locked /\ hist[p].lockFresh
        /\ hist[p].lockBy # hist[p].startBy
        /\ ret[p].path = "recheck"

\* The lines at which a flow holds updating: from Lock or TryLock to the
\* deferred Unlock.
Held(f) ==
    IF f = BG THEN {"L145", "inFn", "L148", "L155", "L156", "L110"}
    ELSE {"L122", "L145", "inFn", "L148", "L155", "L156", "L131", "L134"}

\* C17: a flow holds updating exactly from its acquisition to its return,
\* whichever return it takes; and, every invocation of updateFn returning
\* and scheduling being fair, a held lock is released and every call
\* returns.
C17_GuardReleased ==
    /\ [](\A f \in Flows : updating = f <=> pc[f] \in Held(f))
    /\ [](updating \in Flows \cup {Free})
    /\ (updating # Free) ~> (updating = Free)
    /\ \A p \in Procs : (pc[p] # "idle") ~> (pc[p] = "idle")

\* C17's case: a call whose refresh failed and was suppressed has returned
\* and updating is free again.
C17_Witness ==
    \E p \in Procs :
        /\ Done(p) /\ hist[p].locked
        /\ hist[p].failed # NilErr /\ ret[p].err = NilErr
        /\ updating = Free

\* C18: in every state, between the two stores of update too, a non-zero
\* lastUpdateMs implies a stored value; so a caller that passes the test of
\* line 122 finds a non-nil pointer at line 123.
C18_TimestampImpliesValue ==
    /\ lastUpdateMs # 0 => val # NilPtr
    /\ \A p \in Procs :
          (pc[p] = "L122" /\ Since(TimeUnixMilli(lastUpdateMs)) < loc[p].ttl)
              => val # NilPtr

\* C18's case: the first refresh is between its two stores while a caller,
\* which found the cache empty, waits for the lock.
C18_Witness ==
    \E f \in Flows, p \in Procs :
        /\ pc[f] = "L156" /\ val # NilPtr /\ lastUpdateMs = 0
        /\ pc[p] = "L118"

\* C19: a step that changes val or lastUpdateMs is line 155 or line 156 run
\* by the flow that holds updating; lastUpdateMs never decreases; and
\* outside the two stores val is the result of the refresh that was the last
\* to stamp lastUpdateMs.
C19_WritesUnderGuard ==
    /\ [][(val' # val \/ lastUpdateMs' # lastUpdateMs) =>
             \E f \in Flows :
                 /\ updating = f
                 /\ pc[f] \in {"L155", "L156"} /\ pc'[f] # pc[f]]_vars
    /\ [][lastUpdateMs' >= lastUpdateMs]_vars
    /\ []((\A f \in Flows : pc[f] # "L156") => val = tsBy)

\* C19's case: the background refresh, holding updating, has replaced the
\* value and is about to replace the timestamp, after a call returned from
\* the stale path.
C19_Witness ==
    /\ pc[BG] = "L156" /\ updating = BG
    /\ val = loc[BG].nv /\ tsBy # 0 /\ val # tsBy
    /\ \E p \in Procs : Done(p) /\ ret[p].path = "stale"

\* C20: with ReturnLastGood disabled, a value returned from line 101 or
\* line 114 was produced by a refresh that stamped lastUpdateMs less than
\* ttl (with NoWait, less than 2*ttl) before line 97 read the clock.
C20_BoundedStaleness ==
    \A p \in Procs :
        ( /\ Done(p) /\ ~opts.ReturnLastGood
          /\ ret[p].err = NilErr /\ ret[p].path \in {"fresh", "stale"} ) =>
            ~hist[p].tooOld

====
